---- MODULE Spec2Model ----
(***************************************************************************)
(* Verification model of the pinocchio kinematic core:                     *)
(*   - src/src/spatial/log.hxx : log3, Jlog3, log6, Jlog6                  *)
(*   - src/include/pinocchio/algorithm/jacobian.hpp : joint Jacobians      *)
(*                                                                         *)
(* Scalars are exact.  A finite Scalar is a Laurent polynomial with        *)
(* rational coefficients in one angle symbol theta_g (g indexes AngleTab), *)
(* so that theta, theta/sin(theta), 1/theta^2 ... are computed as the code *)
(* computes them, without rounding.  A division by zero gives NaN, which   *)
(* every arithmetic operation propagates and every comparison rejects, as  *)
(* IEEE arithmetic does.                                                   *)
(***************************************************************************)
EXTENDS Integers, Sequences, FiniteSets, TLC

(* ----------------------------------------------------------------------- *)
(* Call by value: F applied to its arguments, each evaluated once.         *)
(* ----------------------------------------------------------------------- *)
Eval1(F(_), a) == CHOOSE r \in {F(x) : x \in {a}} : TRUE
Eval2(F(_, _), a, b) == CHOOSE r \in {F(x, y) : x \in {a}, y \in {b}} : TRUE
Eval3(F(_, _, _), a, b, c) ==
  CHOOSE r \in {F(x, y, z) : x \in {a}, y \in {b}, z \in {c}} : TRUE

(* ----------------------------------------------------------------------- *)
(* Exact rationals <<n, d>>, d > 0, gcd(|n|, d) = 1                        *)
(* ----------------------------------------------------------------------- *)
Abs(x) == IF x < 0 THEN -x ELSE x

RECURSIVE Gcd(_, _)
Gcd(a, b) == Eval2(LAMBDA x, y : IF y = 0 THEN x ELSE Gcd(y, x % y), a, b)

Q(n, d) ==
  Eval3(LAMBDA x, y, g : IF y < 0 THEN <<(-x) \div g, (-y) \div g>>
                                  ELSE <<x \div g, y \div g>>,
        n, d, Gcd(Abs(n), Abs(d)))

QAdd(x, y) ==
  Eval3(LAMBDA a, b, g : Q(a[1] * (b[2] \div g) + b[1] * (a[2] \div g),
                           (a[2] \div g) * b[2]),
        x, y, Gcd(x[2], y[2]))

QMul(x, y) ==
  Eval2(LAMBDA a, b :
          Eval2(LAMBDA g1, g2 : Q((a[1] \div g1) * (b[1] \div g2),
                                  (a[2] \div g2) * (b[2] \div g1)),
                Gcd(Abs(a[1]), b[2]), Gcd(Abs(b[1]), a[2])),
        x, y)

QInv(x) == Q(x[2], x[1])

QLess(x, y) == x[1] * y[2] < y[1] * x[2]

(* the non-negative rational square root of a perfect square, <<-1, 1>> otherwise *)
QSqrt(x) ==
  Eval1(LAMBDA a :
          IF /\ a[1] >= 0
             /\ \E r \in 0..a[1] : r * r = a[1]
             /\ \E r \in 1..a[2] : r * r = a[2]
          THEN <<CHOOSE r \in 0..a[1] : r * r = a[1],
                 CHOOSE r \in 1..a[2] : r * r = a[2]>>
          ELSE <<-1, 1>>,
        x)

(* ----------------------------------------------------------------------- *)
(* Scalar: [sym, t].  t is the sequence of terms <<k, n, d>> (coefficient  *)
(* n/d of theta^k), sorted by k, no zero coefficient.  sym is the index of *)
(* the angle symbol, 0 for a rational; sym = -1 is NaN (a non-finite       *)
(* value); sym = -2 marks a value outside the exact domain of the model.   *)
(* ----------------------------------------------------------------------- *)
NaN == [sym |-> -1, t |-> <<>>]
OutOfModel == [sym |-> -2, t |-> <<>>]
Zero == [sym |-> 0, t |-> <<>>]
Rat(n, d) ==
  IF n = 0 THEN Zero
  ELSE Eval1(LAMBDA q : [sym |-> 0, t |-> <<<<0, q[1], q[2]>>>>], Q(n, d))
One == [sym |-> 0, t |-> <<<<0, 1, 1>>>>]
Theta(g) == [sym |-> g, t |-> <<<<1, 1, 1>>>>]

Fin(x) == x.sym >= 0
IsNaN(x) == x.sym = -1

Norm(sym, t) ==
  Eval1(LAMBDA u : [sym |-> IF u = <<>> \/ (Len(u) = 1 /\ u[1][1] = 0) THEN 0 ELSE sym,
                    t |-> u],
        t)

SymOf(a, b) ==
  IF a.sym = 0 THEN b.sym
  ELSE IF b.sym = 0 \/ b.sym = a.sym THEN a.sym ELSE -2

RECURSIVE TAdd(_, _)
TAdd(s, u) ==
  Eval2(LAMBDA x, y :
          IF x = <<>> THEN y
          ELSE IF y = <<>> THEN x
          ELSE IF x[1][1] < y[1][1] THEN <<x[1]>> \o TAdd(Tail(x), y)
          ELSE IF y[1][1] < x[1][1] THEN <<y[1]>> \o TAdd(x, Tail(y))
          ELSE Eval2(LAMBDA q, rest :
                       IF q[1] = 0 THEN rest ELSE <<<<x[1][1], q[1], q[2]>>>> \o rest,
                     QAdd(<<x[1][2], x[1][3]>>, <<y[1][2], y[1][3]>>),
                     TAdd(Tail(x), Tail(y))),
        s, u)

RECURSIVE TScale(_, _)
TScale(s, m) ==
  Eval2(LAMBDA x, y :
          IF x = <<>> THEN <<>>
          ELSE Eval1(LAMBDA q : <<<<x[1][1] + y[1], q[1], q[2]>>>>,
                     QMul(<<x[1][2], x[1][3]>>, <<y[2], y[3]>>))
               \o TScale(Tail(x), y),
        s, m)

RECURSIVE TMul(_, _)
TMul(s, u) ==
  Eval2(LAMBDA x, y :
          IF y = <<>> THEN <<>> ELSE TAdd(TScale(x, y[1]), TMul(x, Tail(y))),
        s, u)

Lift(a, b, t) ==
  IF a.sym = -2 \/ b.sym = -2 THEN OutOfModel
  ELSE IF a.sym = -1 \/ b.sym = -1 THEN NaN
  ELSE IF SymOf(a, b) = -2 THEN OutOfModel
  ELSE Norm(SymOf(a, b), t)

Add(a, b) == Eval2(LAMBDA x, y : Lift(x, y, TAdd(x.t, y.t)), a, b)
Neg(a) ==
  Eval1(LAMBDA x : IF Fin(x) THEN [sym |-> x.sym, t |-> TScale(x.t, <<0, -1, 1>>)] ELSE x, a)
Sub(a, b) == Add(a, Neg(b))
Mul(a, b) == Eval2(LAMBDA x, y : Lift(x, y, TMul(x.t, y.t)), a, b)

(* a / b: b = 0 gives a non-finite value; a finite divisor is a monomial *)
Div(a, b) ==
  Eval2(LAMBDA x, y :
          IF ~Fin(x) \/ ~Fin(y) THEN Lift(x, y, <<>>)
          ELSE IF y.t = <<>> THEN NaN
          ELSE IF Len(y.t) > 1 THEN OutOfModel
          ELSE Eval1(LAMBDA q : Lift(x, y, TScale(x.t, <<-y.t[1][1], q[1], q[2]>>)),
                     QInv(<<y.t[1][2], y.t[1][3]>>)),
        a, b)

(* sqrt of a monomial c * theta^(2k) with c a rational square *)
Sqrt(a) ==
  Eval1(LAMBDA x :
          IF ~Fin(x) THEN x
          ELSE IF x.t = <<>> THEN Zero
          ELSE IF Len(x.t) > 1 THEN OutOfModel
          ELSE IF x.t[1][2] < 0 THEN NaN
          ELSE Eval1(LAMBDA r :
                       IF r[1] < 0 \/ x.t[1][1] % 2 # 0 THEN OutOfModel
                       ELSE Norm(x.sym, <<<<x.t[1][1] \div 2, r[1], r[2]>>>>),
                     QSqrt(<<x.t[1][2], x.t[1][3]>>)),
        a)

(* ----------------------------------------------------------------------- *)
(* The angles of the model: cos and sin are rational, micro is the angle   *)
(* in 1e-6 rad (used by comparisons only).  Entry PiIndex is pi.           *)
(* ----------------------------------------------------------------------- *)
AngleTab ==
  << [c |-> <<0, 1>>,    s |-> <<1, 1>>,   micro |-> 1570796],
     [c |-> <<-1, 1>>,   s |-> <<0, 1>>,   micro |-> 3141593],
     [c |-> <<3, 5>>,    s |-> <<4, 5>>,   micro |-> 927295],
     [c |-> <<-3, 5>>,   s |-> <<4, 5>>,   micro |-> 2214297],
     [c |-> <<-4, 5>>,   s |-> <<3, 5>>,   micro |-> 2498092],
     [c |-> <<4, 5>>,    s |-> <<3, 5>>,   micro |-> 643501],
     [c |-> <<5, 13>>,   s |-> <<12, 13>>, micro |-> 1176005],
     [c |-> <<-5, 13>>,  s |-> <<12, 13>>, micro |-> 1965588],
     [c |-> <<-62499, 62501>>, s |-> <<500, 62501>>, micro |-> 3133593] >>

PiIndex == 2
(* the angle pi - asin(500/62501), about pi - 0.008: above PI_value_lower, below pi *)
NearPiIndex == 9

QOf(x) == IF x.t = <<>> THEN <<0, 1>> ELSE <<x.t[1][2], x.t[1][3]>>
RatQ(q) == Rat(q[1], q[2])
IsAngle(x) == x.sym > 0 /\ x = Theta(x.sym)

Sin(x) ==
  Eval1(LAMBDA a : IF ~Fin(a) THEN a
                   ELSE IF a = Zero THEN Zero
                   ELSE IF IsAngle(a) THEN RatQ(AngleTab[a.sym].s)
                   ELSE OutOfModel,
        x)

Cos(x) ==
  Eval1(LAMBDA a : IF ~Fin(a) THEN a
                   ELSE IF a = Zero THEN One
                   ELSE IF IsAngle(a) THEN RatQ(AngleTab[a.sym].c)
                   ELSE OutOfModel,
        x)

Acos(x) ==
  Eval1(LAMBDA a :
          IF ~Fin(a) THEN a
          ELSE IF a.sym # 0 THEN OutOfModel
          ELSE IF QOf(a) = <<1, 1>> THEN Zero
          ELSE IF QLess(<<1, 1>>, QOf(a)) \/ QLess(QOf(a), <<-1, 1>>) THEN NaN
          ELSE IF \E g \in 1..Len(AngleTab) : AngleTab[g].c = QOf(a)
               THEN Theta(CHOOSE g \in 1..Len(AngleTab) : AngleTab[g].c = QOf(a))
               ELSE OutOfModel,
        x)

(* the value of c0 + c1 * theta_g in 1e-6 units *)
TMicro(sym, m) ==
  CASE m[1] = 0 -> (m[2] * 1000000) \div m[3]
    [] m[1] = 1 -> (m[2] * AngleTab[sym].micro) \div m[3]

Micro(x) ==
  CASE Len(x.t) = 0 -> 0
    [] Len(x.t) = 1 -> TMicro(x.sym, x.t[1])
    [] Len(x.t) = 2 -> TMicro(x.sym, x.t[1]) + TMicro(x.sym, x.t[2])

(* a < b; false when an operand is NaN *)
Less(a, b) ==
  Eval2(LAMBDA x, y :
          CASE IsNaN(x) \/ IsNaN(y) -> FALSE
            [] Fin(x) /\ Fin(y) ->
                 IF SymOf(x, y) # -2
                 THEN Eval1(LAMBDA dt : IF Len(dt) <= 1
                                        THEN dt # <<>> /\ dt[1][2] > 0
                                        ELSE Micro(x) < Micro(y),
                            Sub(y, x).t)
                 ELSE Micro(x) < Micro(y),
        a, b)

Holds(op, a, b) ==
  Eval2(LAMBDA x, y :
          CASE op = "LT" -> Less(x, y)
            [] op = "GT" -> Less(y, x)
            [] op = "LE" -> Less(x, y) \/ (Fin(x) /\ x = y)
            [] op = "GE" -> Less(y, x) \/ (Fin(x) /\ x = y),
        a, b)

(* internal::if_then_else: both values exist, one is returned *)
if_then_else(op, lhs, rhs, then_value, else_value) ==
  IF Holds(op, lhs, rhs) THEN then_value ELSE else_value

Min(a, b) == Eval2(LAMBDA x, y : IF Less(y, x) THEN y ELSE x, a, b)
Max(a, b) == Eval2(LAMBDA x, y : IF Less(x, y) THEN y ELSE x, a, b)

(* ----------------------------------------------------------------------- *)
(* Vectors <<x, y, z>> and 3x3 matrices (tuples of rows); El is the        *)
(* zero-based accessor R(i, j) of the source.                              *)
(* ----------------------------------------------------------------------- *)
El(R, i, j) == R[i + 1][j + 1]
Vec(F(_)) == <<F(0), F(1), F(2)>>
Mat(F(_, _)) ==
  << <<F(0, 0), F(0, 1), F(0, 2)>>,
     <<F(1, 0), F(1, 1), F(1, 2)>>,
     <<F(2, 0), F(2, 1), F(2, 2)>> >>

Zero3 == <<Zero, Zero, Zero>>
Identity3 == Mat(LAMBDA i, j : IF i = j THEN One ELSE Zero)
ZeroMat3 == Mat(LAMBDA i, j : Zero)

VAdd(u, v) == Eval2(LAMBDA x, y : Vec(LAMBDA i : Add(x[i + 1], y[i + 1])), u, v)
VSub(u, v) == Eval2(LAMBDA x, y : Vec(LAMBDA i : Sub(x[i + 1], y[i + 1])), u, v)
VScale(a, v) == Eval2(LAMBDA x, y : Vec(LAMBDA i : Mul(x, y[i + 1])), a, v)
Dot(u, v) ==
  Eval2(LAMBDA x, y : Add(Add(Mul(x[1], y[1]), Mul(x[2], y[2])), Mul(x[3], y[3])), u, v)
Cross(u, v) ==
  Eval2(LAMBDA x, y : << Sub(Mul(x[2], y[3]), Mul(x[3], y[2])),
                         Sub(Mul(x[3], y[1]), Mul(x[1], y[3])),
                         Sub(Mul(x[1], y[2]), Mul(x[2], y[1])) >>,
        u, v)
Trace(R) == Eval1(LAMBDA X : Add(Add(El(X, 0, 0), El(X, 1, 1)), El(X, 2, 2)), R)
MAdd(X, Y) == Eval2(LAMBDA A, B : Mat(LAMBDA i, j : Add(El(A, i, j), El(B, i, j))), X, Y)
MScale(a, X) == Eval2(LAMBDA x, A : Mat(LAMBDA i, j : Mul(x, El(A, i, j))), a, X)
MMul(X, Y) ==
  Eval2(LAMBDA A, B :
          Mat(LAMBDA i, j : Add(Add(Mul(El(A, i, 0), El(B, 0, j)),
                                    Mul(El(A, i, 1), El(B, 1, j))),
                                Mul(El(A, i, 2), El(B, 2, j)))),
        X, Y)
Outer(u, v) == Eval2(LAMBDA x, y : Mat(LAMBDA i, j : Mul(x[i + 1], y[j + 1])), u, v)
Skew(v) ==
  Eval1(LAMBDA x : << <<Zero, Neg(x[3]), x[2]>>,
                      <<x[3], Zero, Neg(x[1])>>,
                      <<Neg(x[2]), x[1], Zero>> >>,
        v)
(* addSkew(v, M): M += skew(v) *)
addSkew(v, X) == MAdd(X, Skew(v))
AddDiag(X, a) ==
  Eval2(LAMBDA A, x : Mat(LAMBDA i, j : IF i = j THEN Add(El(A, i, j), x) ELSE El(A, i, j)),
        X, a)

(* ----------------------------------------------------------------------- *)
(* log3_impl::run                                                          *)
(* ----------------------------------------------------------------------- *)
PI_value == Theta(PiIndex)
PI_value_lower == [sym |-> PiIndex, t |-> <<<<0, -1, 100>>, <<1, 1, 1>>>>]
(* TaylorSeriesExpansion<double>::precision<3>() = eps^(1/4) = 1.22e-4 *)
TaylorPrecision3 == [sym |-> 0, t |-> <<<<0, 61, 500000>>>>]
Two == [sym |-> 0, t |-> <<<<0, 2, 1>>>>]
Three == [sym |-> 0, t |-> <<<<0, 3, 1>>>>]
MinusOne == [sym |-> 0, t |-> <<<<0, -1, 1>>>>]
Half == [sym |-> 0, t |-> <<<<0, 1, 2>>>>]

(* Scalar tr = R.trace() *)
log3_trace(R) == Trace(R)

(* math::acos((tr - Scalar(1))/Scalar(2)) *)
(* (tr - Scalar(1))/Scalar(2), the argument of math::acos: tr is not yet clamped *)
log3_acos_arg(R) == Div(Sub(log3_trace(R), One), Two)
log3_acos(R) == Acos(log3_acos_arg(R))

(* variants of the angle selection: thresholds' values exchanged; no guard *)
log3_theta_swapped(R) ==
  if_then_else("GE", log3_trace(R), Three,
               PI_value,
               if_then_else("LE", log3_trace(R), MinusOne,
                            Zero,
                            log3_acos(R)))
log3_theta_unguarded(R) == log3_acos(R)

log3_theta(R) ==
  if_then_else("GE", log3_trace(R), Three,
               Zero,
               if_then_else("LE", log3_trace(R), MinusOne,
                            PI_value,
                            log3_acos(R)))

(* the variant that keeps the trace as it is *)
log3_tr_unclamped(R) == log3_trace(R)
(* tr = math::max(math::min(tr, Scalar(3)), Scalar(-1)) *)
log3_tr(R) == Max(Min(log3_trace(R), Three), MinusOne)

log3_t(theta) ==
  Div(if_then_else("GT", theta, TaylorPrecision3,
                   Div(theta, Sin(theta)),
                   One),
      Two)

log3_cphi(R) == Neg(Div(Sub(log3_tr(R), One), Two))
(* the variant without the factor theta^2 *)
log3_beta_unit(R, theta) == Div(One, Add(One, log3_cphi(R)))
log3_beta(R, theta) == Div(Mul(theta, theta), Add(One, log3_cphi(R)))
log3_tmp(R, theta) ==
  Eval2(LAMBDA cphi, beta : Vec(LAMBDA i : Mul(Add(El(R, i, i), cphi), beta)),
        log3_cphi(R), log3_beta(R, theta))

(* component i of res, (i, j, k) a cyclic permutation: R(k, j) against R(j, k) *)
(* variant of the near-pi component with a non-strict sign comparison *)
log3_near_pi_ge(R, theta, i, j, k) ==
  Eval1(LAMBDA tmp_i :
          Mul(if_then_else("GE", El(R, k, j), El(R, j, k), One, MinusOne),
              if_then_else("GT", tmp_i, Zero, Sqrt(tmp_i), Zero)),
        log3_tmp(R, theta)[i + 1])

log3_near_pi(R, theta, i, j, k) ==
  Eval1(LAMBDA tmp_i :
          Mul(if_then_else("GT", El(R, k, j), El(R, j, k), One, MinusOne),
              if_then_else("GT", tmp_i, Zero, Sqrt(tmp_i), Zero)),
        log3_tmp(R, theta)[i + 1])

log3_regular(R, theta, i, j, k) ==
  Mul(log3_t(theta), Sub(El(R, k, j), El(R, j, k)))

log3_res(R, theta, i, j, k) ==
  if_then_else("GE", theta, PI_value_lower,
               log3_near_pi(R, theta, i, j, k),
               log3_regular(R, theta, i, j, k))

log3_run(R, theta) ==
  [theta |-> theta,
   res |-> << log3_res(R, theta, 0, 1, 2),
              log3_res(R, theta, 1, 2, 0),
              log3_res(R, theta, 2, 0, 1) >>]

log3(R) == Eval2(log3_run, R, log3_theta(R))

(* ----------------------------------------------------------------------- *)
(* Inputs: valid rotations (orthonormal, det +1) given by a unit axis and  *)
(* an angle of AngleTab (0 for no rotation), by Rodrigues' formula         *)
(*    R = c I + s skew(axis) + (1 - c) axis axis^T.                        *)
(* ----------------------------------------------------------------------- *)
AxisTab ==
  << <<One, Zero, Zero>>,
     <<Zero, One, Zero>>,
     <<Zero, Zero, One>>,
     <<Rat(3, 5), Rat(-4, 5), Zero>>,
     <<Rat(2, 3), Rat(1, 3), Rat(2, 3)>>,
     <<Zero, Rat(-3, 5), Rat(-4, 5)>>,
     <<Rat(-2, 3), Rat(2, 3), Rat(1, 3)>>,
     <<MinusOne, Zero, Zero>> >>

RotationOf(axis, g) ==
  IF g = 0 THEN Identity3
  ELSE Eval3(LAMBDA a, c, s :
               MAdd(AddDiag(MScale(s, Skew(a)), c), MScale(Sub(One, c), Outer(a, a))),
             axis, RatQ(AngleTab[g].c), RatQ(AngleTab[g].s))

AngleOf(g) == IF g = 0 THEN Zero ELSE Theta(g)

(* ----------------------------------------------------------------------- *)
(* Jlog3_impl::run                                                         *)
(* ----------------------------------------------------------------------- *)
Jlog3_st_1mct(theta) == Div(Sin(theta), Sub(One, Cos(theta)))

Jlog3_alpha(theta) ==
  if_then_else("LT", theta, TaylorPrecision3,
               Add(Rat(1, 12), Div(Mul(theta, theta), Rat(720, 1))),
               Sub(Div(One, Mul(theta, theta)),
                   Div(Jlog3_st_1mct(theta), Mul(Two, theta))))

(* variant without the selection for small angles *)
Jlog3_diag_value_unguarded(theta) ==
  Mul(Half, Mul(theta, Jlog3_st_1mct(theta)))
Jlog3_diag_value(theta) ==
  if_then_else("LT", theta, TaylorPrecision3,
               Mul(Half, Sub(Two, Div(Mul(theta, theta), Rat(6, 1)))),
               Mul(Half, Mul(theta, Jlog3_st_1mct(theta))))

(* Jlog_ = alpha * log * log^T; Jlog_.diagonal() += diag_value; addSkew(0.5 * log, Jlog_) *)
Jlog3_run(theta, log) ==
  addSkew(VScale(Half, log),
          AddDiag(MScale(Jlog3_alpha(theta), Outer(log, log)),
                  Jlog3_diag_value(theta)))

Jlog3(theta, log) == Eval2(Jlog3_run, theta, log)

(* ----------------------------------------------------------------------- *)
(* log6_impl::run; M = [rotation, translation], mout = [linear, angular]   *)
(* ----------------------------------------------------------------------- *)
log6_alpha(theta) ==
  Eval1(LAMBDA t2 :
          if_then_else("LT", theta, TaylorPrecision3,
                       Sub(Sub(One, Div(t2, Rat(12, 1))), Div(Mul(t2, t2), Rat(720, 1))),
                       Div(Mul(theta, Sin(theta)), Mul(Two, Sub(One, Cos(theta))))),
        Mul(theta, theta))

log6_beta(theta) ==
  Eval1(LAMBDA t2 :
          if_then_else("LT", theta, TaylorPrecision3,
                       Add(Rat(1, 12), Div(t2, Rat(720, 1))),
                       Sub(Div(One, t2),
                           Div(Sin(theta), Mul(Mul(Two, theta), Sub(One, Cos(theta)))))),
        Mul(theta, theta))

(* alpha * p - Scalar(0.5) * w.cross(p) + (beta * w.dot(p)) * w *)
(* variant of the linear part with the cross term added instead of subtracted *)
log6_linear_plus_cross(theta, w, p) ==
  VAdd(VAdd(VScale(log6_alpha(theta), p), VScale(Half, Cross(w, p))),
       VScale(Mul(log6_beta(theta), Dot(w, p)), w))

log6_linear_run(theta, w, p) ==
  VAdd(VSub(VScale(log6_alpha(theta), p), VScale(Half, Cross(w, p))),
       VScale(Mul(log6_beta(theta), Dot(w, p)), w))

log6_linear(theta, w, p) == Eval3(log6_linear_run, theta, w, p)

log6(M) ==
  Eval1(LAMBDA l3 : [linear |-> log6_linear(l3.theta, l3.res, M.translation),
                     angular |-> l3.res],
        log3(M.rotation))

(* ----------------------------------------------------------------------- *)
(* Jlog6_impl::run; the 6x6 output is held as its four 3x3 blocks          *)
(*    value = [ A, B ; C, D ]                                              *)
(* and every statement of the source is one update of it.                  *)
(* ----------------------------------------------------------------------- *)
Jlog6_tinv(t) == Div(One, t)
Jlog6_t2inv(t) == Eval1(LAMBDA tinv : Mul(tinv, tinv), Jlog6_tinv(t))
Jlog6_inv_2_2ct(t) == Div(One, Mul(Two, Sub(One, Cos(t))))

Jlog6_beta(t) ==
  if_then_else("LT", t, TaylorPrecision3,
               Add(Rat(1, 12), Div(Mul(t, t), Rat(720, 1))),
               Sub(Jlog6_t2inv(t),
                   Mul(Mul(Sin(t), Jlog6_tinv(t)), Jlog6_inv_2_2ct(t))))

Jlog6_beta_dot_over_theta(t) ==
  if_then_else("LT", t, TaylorPrecision3,
               Rat(1, 360),
               Add(Mul(Mul(Rat(-2, 1), Jlog6_t2inv(t)), Jlog6_t2inv(t)),
                   Mul(Mul(Add(One, Mul(Sin(t), Jlog6_tinv(t))), Jlog6_t2inv(t)),
                       Jlog6_inv_2_2ct(t))))

(* (beta_dot_over_theta*wTp)*w - (t2*beta_dot_over_theta + Scalar(2)*beta)*p *)
Jlog6_v3_tmp(t, w, p) ==
  Eval2(LAMBDA beta, bdot :
          VSub(VScale(Mul(bdot, Dot(w, p)), w),
               VScale(Add(Mul(Mul(t, t), bdot), Mul(Two, beta)), p)),
        Jlog6_beta(t), Jlog6_beta_dot_over_theta(t))

(* Jlog3(t, w, A); D = A *)
Jlog6_AD(value, t, w) ==
  Eval1(LAMBDA v1 : [v1 EXCEPT !.D = v1.A], [value EXCEPT !.A = Jlog3(t, w)])

(* variant that adds to C what the first statement assigns *)
Jlog6_C1_accumulate(value, t, w, p) ==
  [value EXCEPT !.C = MAdd(@, Outer(Jlog6_v3_tmp(t, w, p), w))]
(* C.noalias() = v3_tmp * w.transpose() *)
Jlog6_C1(value, t, w, p) ==
  [value EXCEPT !.C = Outer(Jlog6_v3_tmp(t, w, p), w)]
(* C.noalias() += beta * w * p.transpose() *)
Jlog6_C2(value, t, w, p) ==
  [value EXCEPT !.C = MAdd(@, MScale(Jlog6_beta(t), Outer(w, p)))]
(* C.diagonal().array() += wTp * beta *)
Jlog6_C3(value, t, w, p) ==
  [value EXCEPT !.C = AddDiag(@, Mul(Dot(w, p), Jlog6_beta(t)))]
(* variant that adds the skew matrix of p itself *)
Jlog6_C4_full(value, t, w, p) ==
  [value EXCEPT !.C = addSkew(p, @)]
(* addSkew(.5 * p, C) *)
Jlog6_C4(value, t, w, p) ==
  [value EXCEPT !.C = addSkew(VScale(Half, p), @)]

(* variant of the last two statements in the other order *)
Jlog6_CB(value) ==
  Eval1(LAMBDA v : [v EXCEPT !.B = MMul(v.C, v.A)], [value EXCEPT !.C = ZeroMat3])

(* B.noalias() = C * A; C.setZero() *)
Jlog6_BC(value) ==
  Eval1(LAMBDA v : [v EXCEPT !.B = MMul(v.C, v.A), !.C = ZeroMat3], value)

Jlog6_run(value, t, w, p) ==
  Jlog6_BC(Jlog6_C4(Jlog6_C3(Jlog6_C2(Jlog6_C1(Jlog6_AD(value, t, w),
                                               t, w, p), t, w, p), t, w, p), t, w, p))

Jlog6(M, value) ==
  Eval1(LAMBDA l3 : Jlog6_run(value, l3.theta, l3.res, M.translation), log3(M.rotation))

(* ----------------------------------------------------------------------- *)
(* State.  The log-map engine is driven by one caller: an input transform  *)
(* M, the caller's output variables, and the last function called.         *)
(* ----------------------------------------------------------------------- *)
(* ======================================================================= *)
(* Jacobian assembly engine.  jacobian.hpp declares the functions and     *)
(* defines the overload of getJointJacobian that returns the matrix; the   *)
(* other bodies follow the specification's description of the engine.      *)
(* Kinematics are exact: revolute joints turn by quarter turns and every   *)
(* length is an integer, so placements and Jacobian columns are integer    *)
(* matrices.                                                               *)
(* ======================================================================= *)

IZero3 == <<0, 0, 0>>
IIdentity3 == << <<1, 0, 0>>, <<0, 1, 0>>, <<0, 0, 1>> >>
IAdd3(a, b) ==
  Eval2(LAMBDA x, y : <<x[1] + y[1], x[2] + y[2], x[3] + y[3]>>, a, b)
ISub3(a, b) ==
  Eval2(LAMBDA x, y : <<x[1] - y[1], x[2] - y[2], x[3] - y[3]>>, a, b)
IDot(a, b) ==
  Eval2(LAMBDA x, y : x[1] * y[1] + x[2] * y[2] + x[3] * y[3], a, b)
ICross(a, b) ==
  Eval2(LAMBDA x, y : << x[2] * y[3] - x[3] * y[2],
                         x[3] * y[1] - x[1] * y[3],
                         x[1] * y[2] - x[2] * y[1] >>, a, b)
ITranspose(A) ==
  Eval1(LAMBDA X : << <<X[1][1], X[2][1], X[3][1]>>,
                      <<X[1][2], X[2][2], X[3][2]>>,
                      <<X[1][3], X[2][3], X[3][3]>> >>, A)
IMatVec(A, v) ==
  Eval2(LAMBDA X, y : <<IDot(X[1], y), IDot(X[2], y), IDot(X[3], y)>>, A, v)
IMatMul(A, B) ==
  Eval2(LAMBDA X, Yt : << IMatVec(Yt, X[1]), IMatVec(Yt, X[2]), IMatVec(Yt, X[3]) >>,
        A, ITranspose(B))

(* SE3: a placement [rotation, translation]; Motion: (linear 3, angular 3) *)
SE3(R, p) == [rotation |-> R, translation |-> p]
SE3_Identity == SE3(IIdentity3, IZero3)
SE3_mul(m1, m2) ==
  Eval2(LAMBDA a, b : SE3(IMatMul(a.rotation, b.rotation),
                          IAdd3(a.translation, IMatVec(a.rotation, b.translation))),
        m1, m2)
Motion(v, w) ==
  Eval2(LAMBDA x, y : <<x[1], x[2], x[3], y[1], y[2], y[3]>>, v, w)
Motion_linear(m) == Eval1(LAMBDA x : <<x[1], x[2], x[3]>>, m)
Motion_angular(m) == Eval1(LAMBDA x : <<x[4], x[5], x[6]>>, m)
Motion_Zero == <<0, 0, 0, 0, 0, 0>>

(* m.act(v): the motion v of the frame placed at m, expressed in the base frame *)
SE3_act(m, v) ==
  Eval2(LAMBDA a, w :
          Motion(IAdd3(IMatVec(a.rotation, Motion_linear(v)), ICross(a.translation, w)), w),
        m, IMatVec(m.rotation, Motion_angular(v)))
(* m.actInv(v): the inverse re-expression *)
SE3_actInv(m, v) ==
  Eval2(LAMBDA Rt, x :
          Motion(IMatVec(Rt, ISub3(Motion_linear(x), ICross(m.translation, Motion_angular(x)))),
                 IMatVec(Rt, Motion_angular(x))),
        ITranspose(m.rotation), v)

(* quarter-turn rotations *)
CosQ(k) == <<1, 0, -1, 0>>[(k % 4) + 1]
SinQ(k) == <<0, 1, 0, -1>>[(k % 4) + 1]
RotX(k) == << <<1, 0, 0>>, <<0, CosQ(k), -SinQ(k)>>, <<0, SinQ(k), CosQ(k)>> >>
RotY(k) == << <<CosQ(k), 0, SinQ(k)>>, <<0, 1, 0>>, <<-SinQ(k), 0, CosQ(k)>> >>
RotZ(k) == << <<CosQ(k), -SinQ(k), 0>>, <<SinQ(k), CosQ(k), 0>>, <<0, 0, 1>> >>

(* joint models: revolute RX RY RZ, prismatic PX PY PZ, translation TR (3 dof) *)
joint_nv(type) == IF type = "TR" THEN 3 ELSE 1

(* jdata.M(): the joint's placement at its configuration qs *)
joint_M(type, qs) ==
  CASE type = "RX" -> SE3(RotX(qs[1]), IZero3)
    [] type = "RY" -> SE3(RotY(qs[1]), IZero3)
    [] type = "RZ" -> SE3(RotZ(qs[1]), IZero3)
    [] type = "PX" -> SE3(IIdentity3, <<qs[1], 0, 0>>)
    [] type = "PY" -> SE3(IIdentity3, <<0, qs[1], 0>>)
    [] type = "PZ" -> SE3(IIdentity3, <<0, 0, qs[1]>>)
    [] type = "TR" -> SE3(IIdentity3, <<qs[1], qs[2], qs[3]>>)

(* jdata.S(): the columns of the joint's motion subspace, in the joint frame *)
joint_S(type) ==
  CASE type = "RX" -> << <<0, 0, 0, 1, 0, 0>> >>
    [] type = "RY" -> << <<0, 0, 0, 0, 1, 0>> >>
    [] type = "RZ" -> << <<0, 0, 0, 0, 0, 1>> >>
    [] type = "PX" -> << <<1, 0, 0, 0, 0, 0>> >>
    [] type = "PY" -> << <<0, 1, 0, 0, 0, 0>> >>
    [] type = "PZ" -> << <<0, 0, 1, 0, 0, 0>> >>
    [] type = "TR" -> << <<1, 0, 0, 0, 0, 0>>, <<0, 1, 0, 0, 0, 0>>, <<0, 0, 1, 0, 0, 0>> >>

(* the kinematic trees: joint i (1-based; 0 is the universe) has a type, a  *)
(* parent and a placement in its parent's frame                            *)
JointOf(type, parent, R, p) ==
  [type |-> type, parent |-> parent, placement |-> SE3(R, p)]

ModelTab ==
  << (* a chain RZ - RX - PY - RY *)
     << JointOf("RZ", 0, IIdentity3, <<0, 0, 1>>),
        JointOf("RX", 1, RotY(1), <<2, 0, 0>>),
        JointOf("PY", 2, IIdentity3, <<0, 1, 3>>),
        JointOf("RY", 3, RotZ(3), <<1, 1, 0>>) >>,
     (* two branches under joint 1, and a second root branch *)
     << JointOf("RY", 0, RotX(1), <<1, 2, 0>>),
        JointOf("PX", 1, IIdentity3, <<0, 3, 0>>),
        JointOf("RZ", 1, RotX(2), <<2, 0, 1>>),
        JointOf("RX", 0, IIdentity3, <<0, 0, 2>>) >>,
     (* a 3-dof translation root with a revolute child, beside a revolute root *)
     << JointOf("TR", 0, RotZ(1), <<1, 0, 0>>),
        JointOf("RX", 1, IIdentity3, <<0, 2, 1>>),
        JointOf("RZ", 0, RotY(3), <<3, 1, 0>>) >>,
     (* prismatic x followed by revolute x *)
     << JointOf("PX", 0, IIdentity3, IZero3),
        JointOf("RX", 1, IIdentity3, IZero3) >>,
     (* a star of three root joints *)
     << JointOf("PZ", 0, RotY(2), <<0, 1, 0>>),
        JointOf("RY", 0, IIdentity3, <<1, 0, 2>>),
        JointOf("RZ", 0, RotX(3), <<2, 2, 0>>) >> >>

(* model.njoints counts the universe *)
njoints(mdl) == Len(ModelTab[mdl]) + 1
parents(mdl, i) == ModelTab[mdl][i].parent
nv(mdl, i) == joint_nv(ModelTab[mdl][i].type)
(* the variant that reserves one column per joint whatever its dof *)
idx_v_oneEach(mdl, i) == IF i <= 1 THEN 0 ELSE i - 1
RECURSIVE idx_v(_, _)
idx_v(mdl, i) == IF i <= 1 THEN 0 ELSE idx_v(mdl, i - 1) + nv(mdl, i - 1)
model_nv(mdl) == idx_v(mdl, njoints(mdl))

(* the joint that owns column j (0-based), and data.parents_fromRow *)
JointOfCol(mdl, j) ==
  CHOOSE i \in 1..(njoints(mdl) - 1) : idx_v(mdl, i) <= j /\ j < idx_v(mdl, i) + nv(mdl, i)
parents_fromRow(mdl, j) ==
  Eval1(LAMBDA i :
          IF j > idx_v(mdl, i) THEN j - 1
          ELSE IF parents(mdl, i) = 0 THEN -1
          ELSE idx_v(mdl, parents(mdl, i)) + nv(mdl, parents(mdl, i)) - 1,
        JointOfCol(mdl, j))

(* configurations: a quarter-turn count or a length per velocity column *)
QTab ==
  << <<0, 0, 0, 0, 0>>,
     <<1, 2, 1, 3, 1>>,
     <<2, 1, 3, 1, 2>>,
     <<3, 3, 2, 2, 1>>,
     <<1, 1, 1, 1, 1>> >>
ConfigOf(mdl, c) == SubSeq(QTab[c], 1, model_nv(mdl))
joint_q(mdl, q, i) == SubSeq(q, idx_v(mdl, i) + 1, idx_v(mdl, i) + nv(mdl, i))

RECURSIVE Fill(_, _)
Fill(n, x) == IF n = 0 THEN <<>> ELSE Append(Fill(n - 1, x), x)
(* Matrix6x::Zero(6, n) as a sequence of n columns *)
Matrix6x_Zero(n) == Fill(n, Motion_Zero)

(* Data as constructed: J zero, placements identity.  The placements liMi   *)
(* relative to the parent are written by each pass before it reads them;    *)
(* they are values of the pass, not kept here.                              *)
FreshData(mdl) ==
  [ oMi |-> Fill(njoints(mdl) - 1, SE3_Identity),
    J   |-> Matrix6x_Zero(model_nv(mdl)) ]

(* jmodel.jointCols(J) = cols: the joint's block of columns, from column idx *)
RECURSIVE jointCols_assign(_, _, _, _)
jointCols_assign(J, idx, cols, k) ==
  IF k > Len(cols) THEN J
  ELSE Eval1(LAMBDA JJ : jointCols_assign(JJ, idx, cols, k + 1),
             [J EXCEPT ![idx + k] = cols[k]])

(* the images of the subspace columns S under F (act or actInv of a placement) *)
RECURSIVE MapCols(_, _, _, _)
MapCols(F(_, _), m, S, k) ==
  IF k > Len(S) THEN <<>>
  ELSE <<F(m, S[k])>> \o MapCols(F, m, S, k + 1)

(* one step of the forward pass of computeJointJacobians, for joint i *)
JointJacobiansForwardStep_oMi(mdl, d, i, liMi) ==
  IF parents(mdl, i) > 0 THEN SE3_mul(d.oMi[parents(mdl, i)], liMi) ELSE liMi
JointJacobiansForwardStep_write(mdl, d, i, liMi, oMi) ==
  [d EXCEPT !.oMi[i] = oMi,
            !.J = jointCols_assign(@, idx_v(mdl, i),
                                   MapCols(SE3_act, oMi, joint_S(ModelTab[mdl][i].type), 1), 1)]
(* the variant that accumulates into the stored columns *)
JointJacobiansForwardStep_accumulate(mdl, d, q, i) ==
  Eval1(LAMBDA liMi :
          Eval1(LAMBDA oMi :
                  [d EXCEPT !.oMi[i] = oMi,
                            !.J[idx_v(mdl, i) + 1] =
                                Motion(IAdd3(Motion_linear(@),
                                             Motion_linear(SE3_act(oMi, joint_S(ModelTab[mdl][i].type)[1]))),
                                       IAdd3(Motion_angular(@),
                                             Motion_angular(SE3_act(oMi, joint_S(ModelTab[mdl][i].type)[1]))))],
                JointJacobiansForwardStep_oMi(mdl, d, i, liMi)),
        SE3_mul(ModelTab[mdl][i].placement,
                joint_M(ModelTab[mdl][i].type, joint_q(mdl, q, i))))
JointJacobiansForwardStep(mdl, d, q, i) ==
  Eval1(LAMBDA liMi :
          Eval1(LAMBDA oMi : JointJacobiansForwardStep_write(mdl, d, i, liMi, oMi),
                JointJacobiansForwardStep_oMi(mdl, d, i, liMi)),
        SE3_mul(ModelTab[mdl][i].placement,
                joint_M(ModelTab[mdl][i].type, joint_q(mdl, q, i))))

(* computeJointJacobians(model, data, q): the pass over joints 1..njoints-1 *)
RECURSIVE computeJointJacobians_from(_, _, _, _)
computeJointJacobians_from(mdl, d, q, i) ==
  IF i >= njoints(mdl) THEN d
  ELSE Eval1(LAMBDA dd : computeJointJacobians_from(mdl, dd, q, i + 1),
             JointJacobiansForwardStep(mdl, d, q, i))
computeJointJacobians(mdl, d, q) == computeJointJacobians_from(mdl, d, q, 1)

ReferenceFrames == {"WORLD", "LOCAL", "LOCAL_WORLD_ALIGNED"}

(* the variant whose LOCAL frame keeps the world origin: rotation only *)
getJointJacobian_col_rotateOnly(rf, oMjoint, col) ==
  CASE rf = "WORLD" -> col
    [] rf = "LOCAL_WORLD_ALIGNED" ->
         Motion(ISub3(Motion_linear(col), ICross(oMjoint.translation, Motion_angular(col))),
                Motion_angular(col))
    [] rf = "LOCAL" -> SE3_actInv(SE3(oMjoint.rotation, IZero3), col)
(* one column of data.J re-expressed in the reference frame rf of the joint at oMjoint *)
getJointJacobian_col(rf, oMjoint, col) ==
  CASE rf = "WORLD" -> col
    [] rf = "LOCAL_WORLD_ALIGNED" ->
         Motion(ISub3(Motion_linear(col), ICross(oMjoint.translation, Motion_angular(col))),
                Motion_angular(col))
    [] rf = "LOCAL" -> SE3_actInv(oMjoint, col)

(* the walk from the joint's last column to the root along parents_fromRow *)
RECURSIVE getJointJacobian_from(_, _, _, _, _, _)
getJointJacobian_from(mdl, d, joint_id, rf, j, J) ==
  IF j < 0 THEN J
  ELSE Eval1(LAMBDA JJ : getJointJacobian_from(mdl, d, joint_id, rf, parents_fromRow(mdl, j), JJ),
             [J EXCEPT ![j + 1] = getJointJacobian_col(rf, d.oMi[joint_id], d.J[j + 1])])

(* the variant that clears the caller's matrix before the walk *)
getJointJacobian_setZero(mdl, d, joint_id, rf, J) ==
  getJointJacobian_from(mdl, d, joint_id, rf,
                        idx_v(mdl, joint_id) + nv(mdl, joint_id) - 1,
                        Matrix6x_Zero(Len(J)))
(* getJointJacobian(model, data, joint_id, reference_frame, J), J in place *)
getJointJacobian(mdl, d, joint_id, rf, J) ==
  getJointJacobian_from(mdl, d, joint_id, rf,
                        idx_v(mdl, joint_id) + nv(mdl, joint_id) - 1, J)

(* a 6 x n matrix holding earlier, unrelated values: entry 100 * column + row *)
RECURSIVE Matrix6x_Stale(_)
Matrix6x_Stale(n) ==
  IF n = 0 THEN <<>>
  ELSE Append(Matrix6x_Stale(n - 1),
              << 100 * n + 1, 100 * n + 2, 100 * n + 3,
                 100 * n + 4, 100 * n + 5, 100 * n + 6 >>)

(* the variant whose result matrix is allocated without being set to zero *)
getJointJacobian_byValue_noZero(mdl, d, joint_id, rf) ==
  getJointJacobian(mdl, d, joint_id, rf, Matrix6x_Stale(model_nv(mdl)))
(* getJointJacobian(model, data, joint_id, reference_frame) returning the matrix *)
getJointJacobian_byValue(mdl, d, joint_id, rf) ==
  getJointJacobian(mdl, d, joint_id, rf, Matrix6x_Zero(model_nv(mdl)))

(* one step of the backward walk of computeJointJacobian, at joint i: s is   *)
(* [J, iMf], iMf the placement of the queried joint's frame in frame i       *)
JointJacobianForwardStep_write(mdl, s, i, liMi) ==
  [ J   |-> jointCols_assign(s.J, idx_v(mdl, i),
                             MapCols(SE3_actInv, s.iMf, joint_S(ModelTab[mdl][i].type), 1), 1),
    iMf |-> SE3_mul(liMi, s.iMf) ]
(* the variant that applies the placement instead of its inverse *)
JointJacobianForwardStep_act(mdl, s, q, i) ==
  Eval1(LAMBDA liMi :
          [ J   |-> jointCols_assign(s.J, idx_v(mdl, i),
                                     MapCols(SE3_act, s.iMf, joint_S(ModelTab[mdl][i].type), 1), 1),
            iMf |-> SE3_mul(liMi, s.iMf) ],
        SE3_mul(ModelTab[mdl][i].placement,
                joint_M(ModelTab[mdl][i].type, joint_q(mdl, q, i))))
JointJacobianForwardStep(mdl, s, q, i) ==
  Eval1(LAMBDA liMi : JointJacobianForwardStep_write(mdl, s, i, liMi),
        SE3_mul(ModelTab[mdl][i].placement,
                joint_M(ModelTab[mdl][i].type, joint_q(mdl, q, i))))

(* computeJointJacobian(model, data, q, joint_id, J): from joint_id to the root *)
RECURSIVE computeJointJacobian_from(_, _, _, _)
computeJointJacobian_from(mdl, s, q, i) ==
  IF i <= 0 THEN s
  ELSE Eval1(LAMBDA ss : computeJointJacobian_from(mdl, ss, q, parents(mdl, i)),
             JointJacobianForwardStep(mdl, s, q, i))
computeJointJacobian(mdl, d, q, joint_id, J) ==
  computeJointJacobian_from(mdl, [J |-> J, iMf |-> SE3_Identity], q, joint_id).J


VARIABLES
  M,       \* the input SE3 [rotation, translation]
  gen,     \* how the input was made: [kind, a, g] (axis and angle index)
  theta,   \* log3 output: the angle
  res,     \* log3 output: the rotation vector
  Jl3,     \* Jlog3 output (3x3)
  mout,    \* log6 output [linear, angular]
  value,   \* Jlog6 output [A, B, C, D]
  op,      \* the last function called
  mdl,     \* the kinematic tree in use (index in ModelTab)
  data,    \* the data of the model: [oMi, J]
  computed, \* computeJointJacobians has been called on data
  call,    \* the last Jacobian call: its arguments, the output matrix before and after
  py_obj,  \* the Python object passed as argument: [kind, items]
  conv,    \* the argument converter of the call in progress
  ret,     \* the last __getitem__ call: its container, argument and outcome
  hin,     \* helical comparison input: angle index, pitch index, root placement index
  hx,      \* data of the model with one helical joint: [done, oMi, J]
  pxrx     \* data of the prismatic-revolute chain: [done, oMi, J]

logvars == <<M, gen, theta, res, Jl3, mout, value, op>>
jacvars == <<mdl, data, computed, call>>
pyvars == <<py_obj, conv, ret>>
helvars == <<hin, hx, pxrx>>
vars == <<M, gen, theta, res, Jl3, mout, value, op, mdl, data, computed, call,
          py_obj, conv, ret, hin, hx, pxrx>>

NAxes == 5
NAngles == 4
NTrans == 3
NOff == 2

(* translations of the inputs *)
TransTab ==
  << Zero3,
     <<Rat(1, 1), Rat(-2, 1), Rat(3, 1)>>,
     <<Zero, Rat(1, 1), Zero>>,
     <<Rat(2, 1), Zero, Rat(-1, 1)>> >>

Diag3(a, b, c) ==
  << <<a, Zero, Zero>>, <<Zero, b, Zero>>, <<Zero, Zero, c>> >>

(* matrices whose trace round-off has pushed out of [-1, 3] *)
OffTab ==
  << Diag3(Rat(101, 100), One, One),
     Diag3(One, Rat(-101, 100), Rat(-1, 1)),
     Diag3(Rat(-101, 100), One, Rat(-1, 1)) >>

Gens ==
  {[kind |-> "rot", a |-> 1, g |-> 0]}
    \cup {[kind |-> "rot", a |-> a, g |-> g] : a \in 1..NAxes, g \in 1..NAngles}
    \cup {[kind |-> "off", a |-> n, g |-> 0] : n \in 1..NOff}

InputRotation(x) ==
  IF x.kind = "rot" THEN RotationOf(AxisTab[x.a], x.g) ELSE OffTab[x.a]

(* what the caller's output variables hold before a call *)
FillSet == {Zero, Rat(7, 1)}
Fill3(f) == <<f, f, f>>
Fill33(f) == <<Fill3(f), Fill3(f), Fill3(f)>>

LogStart(x, n, f) ==
  /\ gen = x
  /\ M = [rotation |-> InputRotation(x), translation |-> TransTab[n]]
  /\ theta = f
  /\ res = Fill3(f)
  /\ Jl3 = Fill33(f)
  /\ mout = [linear |-> Fill3(f), angular |-> Fill3(f)]
  /\ value = [A |-> Fill33(f), B |-> Fill33(f), C |-> Fill33(f), D |-> Fill33(f)]
  /\ op = "start"

(* rotations of an angle just below pi, without translation *)
NearPiGens == {[kind |-> "rot", a |-> a, g |-> NearPiIndex] : a \in 1..NAxes}

LogInit ==
  \/ \E x \in Gens, n \in 1..NTrans, f \in FillSet : LogStart(x, n, f)
  \/ \E x \in NearPiGens, f \in FillSet : LogStart(x, 1, f)

Log3Call ==
  /\ op = "start"
  /\ theta' = log3(M.rotation).theta
  /\ res' = log3(M.rotation).res
  /\ op' = "log3"
  /\ UNCHANGED <<M, gen, Jl3, mout, value, jacvars, pyvars, helvars>>

Jlog3Call ==
  /\ op = "log3"
  /\ Jl3' = Jlog3(theta, res)
  /\ op' = "Jlog3"
  /\ UNCHANGED <<M, gen, theta, res, mout, value, jacvars, pyvars, helvars>>

Log6Call ==
  /\ op = "start"
  /\ mout' = log6(M)
  /\ op' = "log6"
  /\ UNCHANGED <<M, gen, theta, res, Jl3, value, jacvars, pyvars, helvars>>

Jlog6Call ==
  /\ op = "start"
  /\ value' = Jlog6(M, value)
  /\ op' = "Jlog6"
  /\ UNCHANGED <<M, gen, theta, res, Jl3, mout, jacvars, pyvars, helvars>>

(* ----------------------------------------------------------------------- *)
(* Jacobian engine state machine                                           *)
(* ----------------------------------------------------------------------- *)

NModels == 3
NConfigs == 4

NoCall ==
  [name |-> "none", joint |-> 0, rf |-> "", q |-> <<>>, before |-> <<>>, J |-> <<>>]

(* the matrices a caller may pass as output argument *)
Buffers(m) == {Matrix6x_Zero(model_nv(m)), Matrix6x_Stale(model_nv(m))}

JacStart(m) ==
  /\ mdl = m
  /\ data = FreshData(m)
  /\ computed = FALSE
  /\ call = NoCall

JacInit == \E m \in 1..NModels : JacStart(m)

ComputeJointJacobians ==
  \E c \in 1..NConfigs :
    /\ data' = computeJointJacobians(mdl, data, ConfigOf(mdl, c))
    /\ computed' = TRUE
    /\ call' = [name |-> "computeJointJacobians", joint |-> 0, rf |-> "",
                q |-> ConfigOf(mdl, c), before |-> data.J, J |-> data'.J]
    /\ UNCHANGED <<mdl, logvars, pyvars, helvars>>

GetJointJacobian ==
  \E joint_id \in 1..(njoints(mdl) - 1), rf \in ReferenceFrames, buf \in Buffers(mdl) :
    /\ computed
    /\ call' = [name |-> "getJointJacobian", joint |-> joint_id, rf |-> rf,
                q |-> <<>>, before |-> buf,
                J |-> getJointJacobian(mdl, data, joint_id, rf, buf)]
    /\ UNCHANGED <<mdl, data, computed, logvars, pyvars, helvars>>

GetJointJacobianByValue ==
  \E joint_id \in 1..(njoints(mdl) - 1), rf \in ReferenceFrames :
    /\ computed
    /\ call' = [name |-> "getJointJacobian_byValue", joint |-> joint_id, rf |-> rf,
                q |-> <<>>, before |-> <<>>,
                J |-> getJointJacobian_byValue(mdl, data, joint_id, rf)]
    /\ UNCHANGED <<mdl, data, computed, logvars, pyvars, helvars>>

ComputeJointJacobian ==
  \E c \in 1..NConfigs, joint_id \in 1..(njoints(mdl) - 1), buf \in Buffers(mdl) :
    /\ call' = [name |-> "computeJointJacobian", joint |-> joint_id, rf |-> "LOCAL",
                q |-> ConfigOf(mdl, c), before |-> buf,
                J |-> computeJointJacobian(mdl, data, ConfigOf(mdl, c), joint_id, buf)]
    /\ UNCHANGED <<mdl, data, computed, logvars, pyvars, helvars>>

JacNext ==
  \/ ComputeJointJacobians
  \/ GetJointJacobian
  \/ GetJointJacobianByValue
  \/ ComputeJointJacobian

(* ======================================================================= *)
(* Python bindings of std::vector (std-vector.hpp).  A Python object is    *)
(* [kind, items]: a "list" of Python objects, a wrapped "vector" of T, or  *)
(* something else.  A list item is [t |-> "T", v |-> value] for a wrapped  *)
(* T and [t |-> "str"] for an object that is not a T.  T values are small  *)
(* integers.                                                               *)
(* ======================================================================= *)

(* bp::extract<T> elt(bp_list[k]); elt.check() *)
extract_check(item) == item.t = "T"

(* details::from_python_list *)
from_python_list(obj) ==
  /\ obj.kind = "list"
  /\ \A k \in 1..Len(obj.items) : extract_check(obj.items[k])

(* StdContainerFromPythonList::construct: the vector built from the list *)
RECURSIVE construct_from(_, _)
construct_from(items, k) ==
  IF k > Len(items) THEN <<>> ELSE <<items[k].v>> \o construct_from(items, k + 1)
construct(obj) == construct_from(obj.items, 1)

(* converter::get_lvalue_from_python: a wrapped std::vector is an lvalue *)
get_lvalue_from_python(obj) == obj.kind = "vector"

(* the converter: result is what operator() refers to, convertible is       *)
(* m_data.stage1.convertible, storage the vector in m_data.storage.bytes    *)
NoConverter ==
  [pc |-> "idle", result |-> "null", convertible |-> "null", storage |-> <<>>,
   copied |-> 0, accessed |-> {}, threw |-> FALSE]

(* reference_arg_from_python(PyObject * py_obj) *)
reference_arg_from_python(obj) ==
  IF get_lvalue_from_python(obj)
  THEN [NoConverter EXCEPT !.pc = "converted", !.result = "lvalue"]
  ELSE IF ~from_python_list(obj)
  THEN [NoConverter EXCEPT !.pc = "converted"]
  ELSE [NoConverter EXCEPT !.pc = "converted", !.result = "storage",
                           !.convertible = "storage", !.storage = construct(obj)]

(* the copy-back loop of ~reference_arg_from_python from index i (0-based): *)
(* bp_list[i] raises when i is not an index of the list                     *)
RECURSIVE copy_back(_, _, _, _)
copy_back(items, vec, i, accessed) ==
  IF i >= Len(vec)
  THEN [items |-> items, copied |-> i, accessed |-> accessed, threw |-> FALSE]
  ELSE IF i >= Len(items)
  THEN [items |-> items, copied |-> i, accessed |-> accessed \cup {i}, threw |-> TRUE]
  ELSE copy_back([items EXCEPT ![i + 1] = [t |-> "T", v |-> vec[i + 1]]],
                 vec, i + 1, accessed \cup {i})

(* ~reference_arg_from_python() *)
reference_arg_from_python_dtor(c, obj) ==
  IF c.convertible = "storage"
  THEN copy_back(obj.items, c.storage, 0, {})
  ELSE [items |-> obj.items, copied |-> 0, accessed |-> {}, threw |-> FALSE]

(* long and size_t have LongBits bits *)
LongBits == 4
LongMod == 2 ^ LongBits
LongMin == -(2 ^ (LongBits - 1))
LongMax == 2 ^ (LongBits - 1) - 1
ToLong(u) == IF (u % LongMod) > LongMax THEN (u % LongMod) - LongMod ELSE u % LongMod

(* variant with index > size as the upper test *)
convert_index_inclusive(container, i_) ==
  IF i_.t = "int"
  THEN LET index == IF i_.v < 0 THEN ToLong(i_.v + Len(container)) ELSE i_.v
       IN  IF index > ToLong(Len(container)) \/ index < 0
           THEN [exc |-> "IndexError", index |-> 0]
           ELSE [exc |-> "none", index |-> index]
  ELSE [exc |-> "TypeError", index |-> 0]
(* convert_index(container, i_) *)
convert_index(container, i_) ==
  IF i_.t = "int"
  THEN LET index == IF i_.v < 0 THEN ToLong(i_.v + Len(container)) ELSE i_.v
       IN  IF index >= ToLong(Len(container)) \/ index < 0
           THEN [exc |-> "IndexError", index |-> 0]
           ELSE [exc |-> "none", index |-> index]
  ELSE [exc |-> "TypeError", index |-> 0]

(* base_get_item(container, i_): the exception raised, the index, the item *)
base_get_item(container, i_) ==
  LET c == convert_index(container, i_)
  IN  IF c.exc # "none" THEN [exc |-> c.exc, index |-> 0, item |-> 0]
      ELSE IF c.index = Len(container)
      THEN [exc |-> "KeyError", index |-> c.index, item |-> 0]
      ELSE [exc |-> "none", index |-> c.index, item |-> container[c.index + 1]]

(* ----------------------------------------------------------------------- *)
(* Binding state machine: one argument object goes through conversion, the *)
(* wrapped function's use of the vector, and the converter's destruction;  *)
(* a wrapped vector also answers __getitem__.                              *)
(* ----------------------------------------------------------------------- *)
MaxList == 2
MaxVec == 3
NValues == 2

Values == 0..(NValues - 1)
PyItems == {[t |-> "T", v |-> v] : v \in Values} \cup {[t |-> "str"]}
RECURSIVE SeqsUpTo(_, _)
SeqsUpTo(S, n) ==
  IF n = 0 THEN {<<>>}
  ELSE LET P == SeqsUpTo(S, n - 1)
       IN  P \cup {Append(s, x) : s \in {p \in P : Len(p) = n - 1}, x \in S}
PyObjects ==
  {[kind |-> "list", items |-> s] : s \in SeqsUpTo(PyItems, MaxList)}
    \cup {[kind |-> "vector", items |-> s] : s \in SeqsUpTo(Values, MaxList)}
    \cup {[kind |-> "other", items |-> <<>>]}
PyIndexes == {[t |-> "int", v |-> v] : v \in LongMin..LongMax} \cup {[t |-> "str", v |-> 0]}

NoItem ==
  [name |-> "none", container |-> <<>>, arg |-> [t |-> "str", v |-> 0],
   exc |-> "none", index |-> 0, item |-> 0]

PyStart(obj) ==
  /\ py_obj = obj
  /\ conv = NoConverter
  /\ ret = NoItem
PyIdle == PyStart([kind |-> "other", items |-> <<>>])
PyInit == \E obj \in PyObjects : PyStart(obj)

(* the argument converter is constructed for the call *)
Convert ==
  /\ conv.pc = "idle"
  /\ conv' = reference_arg_from_python(py_obj)
  /\ UNCHANGED <<py_obj, ret, logvars, jacvars, helvars>>

(* the vector the wrapped function sees through operator() *)
Referenced == IF conv.result = "storage" THEN conv.storage ELSE py_obj.items
SetReferenced(vec) ==
  IF conv.result = "storage"
  THEN conv' = [conv EXCEPT !.storage = vec] /\ UNCHANGED py_obj
  ELSE py_obj' = [py_obj EXCEPT !.items = vec] /\ UNCHANGED conv

(* the wrapped function assigns an element of its argument *)
CalleeAssign ==
  /\ conv.pc = "converted" /\ conv.result # "null"
  /\ \E i \in 1..Len(Referenced), v \in Values :
       /\ Referenced[i] # v
       /\ SetReferenced([Referenced EXCEPT ![i] = v])
  /\ UNCHANGED <<ret, logvars, jacvars, helvars>>

(* the wrapped function appends to its argument *)
CalleePushBack ==
  /\ conv.pc = "converted" /\ conv.result # "null"
  /\ Len(Referenced) < MaxVec
  /\ \E v \in Values : SetReferenced(Append(Referenced, v))
  /\ UNCHANGED <<ret, logvars, jacvars, helvars>>

(* the wrapped function removes the last element of its argument *)
CalleePopBack ==
  /\ conv.pc = "converted" /\ conv.result # "null"
  /\ Len(Referenced) > 0
  /\ SetReferenced(SubSeq(Referenced, 1, Len(Referenced) - 1))
  /\ UNCHANGED <<ret, logvars, jacvars, helvars>>

(* the converter is destroyed after the call *)
Destroy ==
  /\ conv.pc = "converted"
  /\ LET d == reference_arg_from_python_dtor(conv, py_obj)
     IN  /\ py_obj' = [py_obj EXCEPT !.items = d.items]
         /\ conv' = [conv EXCEPT !.pc = "destroyed", !.copied = d.copied,
                                 !.accessed = d.accessed, !.threw = d.threw]
  /\ UNCHANGED <<ret, logvars, jacvars, helvars>>

(* __getitem__ of a wrapped vector *)
GetItem ==
  /\ conv.pc = "idle"
  /\ py_obj.kind = "vector"
  /\ \E i_ \in PyIndexes :
       LET r == base_get_item(py_obj.items, i_)
       IN  ret' = [name |-> "base_get_item", container |-> py_obj.items, arg |-> i_, exc |-> r.exc,
                   index |-> r.index, item |-> r.item]
  /\ UNCHANGED <<py_obj, conv, logvars, jacvars, helvars>>

PyNext == Convert \/ CalleeAssign \/ CalleePushBack \/ CalleePopBack \/ Destroy \/ GetItem

(* ======================================================================= *)
(* Helical joint about x against a prismatic-x joint followed by a         *)
(* revolute-x joint (joint-helical.cpp).  Placements are [rotation,        *)
(* translation] and motions [linear, angular] over the exact scalars; a    *)
(* joint angle is an index g of AngleTab (0 for the zero angle).           *)
(* ======================================================================= *)
MVec(X, v) == Eval2(LAMBDA A, x : Vec(LAMBDA i : Dot(A[i + 1], x)), X, v)

(* SE3 composition a * b *)
SE3x_mul(a, b) ==
  [rotation |-> MMul(a.rotation, b.rotation),
   translation |-> VAdd(a.translation, MVec(a.rotation, b.translation))]
(* SE3::act on a motion *)
SE3x_act(m, v) ==
  Eval1(LAMBDA Rw : [linear |-> VAdd(MVec(m.rotation, v.linear), Cross(m.translation, Rw)),
                     angular |-> Rw],
        MVec(m.rotation, v.angular))
SE3x_Identity == [rotation |-> Identity3, translation |-> Zero3]

UnitX == AxisTab[1]

(* variant whose translation is q * UnitX *)
TransformX_noPitch(g, pitch) ==
  [rotation |-> RotationOf(UnitX, g), translation |-> VScale(AngleOf(g), UnitX)]
(* the transform of the helical joint at angle alpha of pitch h:             *)
(* translation UnitX * alpha * pitch, rotation AngleAxis(alpha, UnitX)       *)
TransformX(g, pitch) ==
  [rotation |-> RotationOf(UnitX, g),
   translation |-> VScale(Mul(AngleOf(g), pitch), UnitX)]
(* MotionHelicalTpl(1, pitch): angular velocity 1 and linear velocity pitch  *)
MotionHelical(pitch) == [linear |-> VScale(pitch, UnitX), angular |-> UnitX]

(* prismatic x at displacement d, revolute x at angle g, and their subspaces *)
JointModelPX_M(d) == [rotation |-> Identity3, translation |-> VScale(d, UnitX)]
JointModelRX_M(g) == [rotation |-> RotationOf(UnitX, g), translation |-> Zero3]
MotionPrismatic == [linear |-> UnitX, angular |-> Zero3]
MotionRevolute == [linear |-> Zero3, angular |-> UnitX]

PitchTab == << Rat(2, 5), Rat(-3, 2), Rat(1, 1), Rat(5, 4) >>
RootTab ==
  << SE3x_Identity,
     [rotation |-> RotationOf(AxisTab[3], 3), translation |-> TransTab[2]],
     [rotation |-> RotationOf(AxisTab[5], 1), translation |-> TransTab[4]],
     [rotation |-> RotationOf(AxisTab[2], 6), translation |-> TransTab[3]],
     [rotation |-> RotationOf(AxisTab[4], 2), translation |-> TransTab[2]] >>

(* q_PXRX(0) = q_hx(0) * pitch; q_PXRX(1) = q_hx(0) *)
q_PXRX(g, pitch) == << Mul(AngleOf(g), pitch), g >>

(* computeJointJacobians on the model with one HX joint placed at root *)
ForwardHX_run(root, g, pitch) ==
  Eval1(LAMBDA oM1 : [done |-> TRUE,
                      oMi |-> <<oM1>>,
                      J |-> <<SE3x_act(oM1, MotionHelical(pitch))>>],
        SE3x_mul(root, TransformX(g, pitch)))

(* computeJointJacobians on the model PX (placed at root) then RX (placed   *)
(* at the identity on PX)                                                   *)
ForwardPXRX_run(root, q) ==
  Eval1(LAMBDA oM1 :
          Eval1(LAMBDA oM2 : [done |-> TRUE,
                              oMi |-> <<oM1, oM2>>,
                              J |-> <<SE3x_act(oM1, MotionPrismatic),
                                      SE3x_act(oM2, MotionRevolute)>>],
                SE3x_mul(SE3x_mul(oM1, SE3x_Identity), JointModelRX_M(q[2]))),
        SE3x_mul(root, JointModelPX_M(q[1])))

NHelAngles == 5
NPitch == 2
NRoot == 3

NoHelData == [done |-> FALSE, oMi |-> <<>>, J |-> <<>>]
HelStart(g, h, r) ==
  /\ hin = [g |-> g, h |-> h, root |-> r]
  /\ hx = NoHelData
  /\ pxrx = NoHelData
HelIdle == HelStart(0, 1, 1)
HelInit == \E g \in 0..NHelAngles, h \in 1..NPitch, r \in 1..NRoot : HelStart(g, h, r)

ForwardHX ==
  /\ ~hx.done
  /\ hx' = ForwardHX_run(RootTab[hin.root], hin.g, PitchTab[hin.h])
  /\ UNCHANGED <<hin, pxrx, logvars, jacvars, pyvars>>

ForwardPXRX ==
  /\ ~pxrx.done
  /\ pxrx' = ForwardPXRX_run(RootTab[hin.root], q_PXRX(hin.g, PitchTab[hin.h]))
  /\ UNCHANGED <<hin, hx, logvars, jacvars, pyvars>>

HelNext == ForwardHX \/ ForwardPXRX

Init == LogInit /\ JacStart(1) /\ PyIdle /\ HelIdle
Next == Log3Call \/ Jlog3Call \/ Log6Call \/ Jlog6Call
Spec == Init /\ [][Next]_vars

LogIdle == LogStart([kind |-> "rot", a |-> 1, g |-> 0], 1, Zero)
JacSpecInit == LogIdle /\ JacInit /\ PyIdle /\ HelIdle
JacSpec == JacSpecInit /\ [][JacNext]_vars

PySpecInit == LogIdle /\ JacStart(1) /\ PyInit /\ HelIdle
PySpec == PySpecInit /\ [][PyNext]_vars

HelSpecInit == LogIdle /\ JacStart(1) /\ PyIdle /\ HelInit
HelSpec == HelSpecInit /\ [][HelNext]_vars

(* ======================================================================= *)
(* Claims about the log-map engine (specification Spec)                    *)
(* ======================================================================= *)

(* exp of the rotation vector r of norm theta (Rodrigues, axis r / theta) *)
Exp3(th, r) ==
  IF th = Zero THEN Identity3
  ELSE IF IsAngle(th) THEN RotationOf(VScale(Div(One, th), r), th.sym)
  ELSE ZeroMat3

(* C1: for every valid rotation R, also one of angle pi about an axis of mixed   *)
(* signs, the vector r returned by log3 has norm theta and exp(r) = R.           *)
C1_RoundTrip ==
  (op = "log3" /\ gen.kind = "rot") =>
     /\ Dot(res, res) = Mul(theta, theta)
     /\ Exp3(theta, res) = M.rotation

(* C2: log3(Identity) = (theta = 0, r = 0), taken from the branch                *)
(* t * (R(k, j) - R(j, k)), and every component is exactly zero.                 *)
C2_Identity ==
  (op = "log3" /\ M.rotation = Identity3) =>
     /\ theta = Zero
     /\ res = Zero3
     /\ ~Holds("GE", theta, PI_value_lower)
     /\ res = << Mul(Half, Sub(El(M.rotation, 2, 1), El(M.rotation, 1, 2))),
                 Mul(Half, Sub(El(M.rotation, 0, 2), El(M.rotation, 2, 0))),
                 Mul(Half, Sub(El(M.rotation, 1, 0), El(M.rotation, 0, 1))) >>

C2_Witness == op = "log3" /\ M.rotation = Identity3 /\ res = Zero3 /\ theta = Zero

(* the rotation of angle pi about the coordinate axis e_i, i in 0..2 *)
PiAbout(i) ==
  Diag3(IF i = 0 THEN One ELSE MinusOne,
        IF i = 1 THEN One ELSE MinusOne,
        IF i = 2 THEN One ELSE MinusOne)
UnitScaled(i, a) == Vec(LAMBDA j : IF j = i THEN a ELSE Zero)

(* C3 as stated: for R = rotation by pi about e_i, log3 returns theta = pi, no   *)
(* NaN, and r = +pi * e_i.                                                       *)
C3_Original ==
  \A i \in 0..2 :
    (op = "log3" /\ M.rotation = PiAbout(i)) =>
       /\ theta = PI_value
       /\ \A j \in 1..3 : Fin(res[j])
       /\ res = UnitScaled(i, PI_value)

(* C3 amended: for R = rotation by pi about e_i, log3 returns theta = pi, no     *)
(* NaN, and r = -pi * e_i, the other rotation vector of the same rotation.       *)
C3_PiAboutAxis ==
  \A i \in 0..2 :
    (op = "log3" /\ M.rotation = PiAbout(i)) =>
       /\ theta = PI_value
       /\ \A j \in 1..3 : Fin(res[j])
       /\ res = UnitScaled(i, Neg(PI_value))
       /\ Exp3(theta, res) = M.rotation

C3_Witness ==
  op = "log3" /\ M.rotation = PiAbout(1) /\ res = <<Zero, Neg(PI_value), Zero>>

(* C4: theta = 0 when the trace t >= 3, pi when t <= -1, acos((t - 1)/2)         *)
(* otherwise; theta is in [0, pi], never NaN, and the acos value is selected     *)
(* only when its argument is strictly inside (-1, 1).                            *)
C4_ThetaSelection ==
  op = "log3" =>
    LET tq  == QOf(Trace(M.rotation))
        arg == QMul(QAdd(tq, <<-1, 1>>), <<1, 2>>)
    IN  /\ Trace(M.rotation).sym = 0
        /\ ~QLess(tq, <<3, 1>>) => theta = Zero
        /\ ~QLess(<<-1, 1>>, tq) => theta = PI_value
        /\ (QLess(<<-1, 1>>, tq) /\ QLess(tq, <<3, 1>>)) =>
             /\ IsAngle(theta)
             /\ AngleTab[theta.sym].c = arg
             /\ QLess(<<-1, 1>>, arg) /\ QLess(arg, <<1, 1>>)
        /\ Fin(theta)
        /\ ~Less(theta, Zero)
        /\ ~Less(PI_value, theta)

C4_Witness ==
  op = "log3" /\ QLess(<<3, 1>>, QOf(Trace(M.rotation))) /\ theta = Zero

(* C5: log6 returns angular part w = log3(R) and linear part                     *)
(* alpha*p - 0.5*(w x p) + beta*(w.p)*w; zero rotation gives (p, 0) and zero     *)
(* translation gives (0, log3(R)).                                               *)
C5_Log6 ==
  op = "log6" =>
    LET l3 == log3(M.rotation)
        w  == l3.res
        p  == M.translation
    IN  /\ mout.angular = w
        /\ mout.linear =
             VAdd(VSub(VScale(log6_alpha(l3.theta), p), VScale(Half, Cross(w, p))),
                  VScale(Mul(log6_beta(l3.theta), Dot(w, p)), w))
        /\ M.rotation = Identity3 => mout = [linear |-> p, angular |-> Zero3]
        /\ p = Zero3 => mout = [linear |-> Zero3, angular |-> w]

C5_Witness ==
  /\ op = "log6"
  /\ gen.kind = "rot" /\ gen.g = 1
  /\ M.translation # Zero3
  /\ mout.linear # M.translation
  /\ mout.angular = VScale(Theta(1), AxisTab[gen.a])

(* the intermediate 3x3 matrix of Jlog6, from beta, beta_dot_over_theta, w and p *)
Jlog6_Ctmp(t, w, p) ==
  MAdd(MAdd(MAdd(Outer(Jlog6_v3_tmp(t, w, p), w),
                 MScale(Jlog6_beta(t), Outer(w, p))),
            MScale(Mul(Dot(w, p), Jlog6_beta(t)), Identity3)),
       Skew(VScale(Half, p)))

(* C6: on return from Jlog6 the output is [[A, B], [C, D]] with                  *)
(* A = D = Jlog3(theta, w), B = Ctmp * A and C all zeros.                        *)
C6_Jlog6Blocks ==
  op = "Jlog6" =>
    LET l3 == log3(M.rotation)
        A  == Jlog3(l3.theta, l3.res)
    IN  /\ value.A = A
        /\ value.D = A
        /\ value.B = MMul(Jlog6_Ctmp(l3.theta, l3.res, M.translation), A)
        /\ value.C = ZeroMat3

C6_Witness ==
  op = "Jlog6" /\ theta = Rat(7, 1) /\ value.B # ZeroMat3 /\ value.C = ZeroMat3

(* ======================================================================= *)
(* Claims about the Jacobian assembly engine (specification JacSpec)       *)
(* ======================================================================= *)

(* joint a is joint_id or one of its ancestors *)
RECURSIVE IsSupport(_, _, _)
IsSupport(m, a, joint_id) ==
  /\ joint_id > 0
  /\ (a = joint_id \/ IsSupport(m, a, parents(m, joint_id)))
(* the columns (1-based) of joint_id and of its ancestors *)
SupportCols(m, joint_id) ==
  {c \in 1..model_nv(m) :
     \E a \in 1..(njoints(m) - 1) :
        /\ IsSupport(m, a, joint_id)
        /\ idx_v(m, a) < c /\ c <= idx_v(m, a) + nv(m, a)}

(* C7: after getJointJacobian on a zero-initialised output, and so for the      *)
(* by-value overload, the result is 6 x model.nv and every column that is not   *)
(* of joint_id or of one of its ancestors is exactly zero, in every frame.      *)
C7_NonAncestorColumnsZero ==
  (\/ call.name = "getJointJacobian_byValue"
   \/ call.name = "getJointJacobian" /\ call.before = Matrix6x_Zero(model_nv(mdl))) =>
     /\ Len(call.J) = model_nv(mdl)
     /\ \A c \in 1..model_nv(mdl) :
          c \notin SupportCols(mdl, call.joint) => call.J[c] = Motion_Zero

C7_Witness ==
  /\ call.name = "getJointJacobian_byValue"
  /\ \E c \in 1..model_nv(mdl) : c \notin SupportCols(mdl, call.joint)
  /\ \E c \in SupportCols(mdl, call.joint) : call.J[c] # Motion_Zero

(* C8: getJointJacobian with a caller-supplied J writes exactly the columns of  *)
(* joint_id and of its ancestors; every other column keeps the value it had, so *)
(* a J that was not zero beforehand gives a result that differs from the        *)
(* Jacobian in those columns.                                                   *)
C8_OnlyAncestorColumnsWritten ==
  call.name = "getJointJacobian" =>
    /\ \A c \in 1..model_nv(mdl) :
         IF c \in SupportCols(mdl, call.joint)
         THEN call.J[c] = getJointJacobian_col(call.rf, data.oMi[call.joint], data.J[c])
         ELSE call.J[c] = call.before[c]
    /\ (\E c \in 1..model_nv(mdl) :
          c \notin SupportCols(mdl, call.joint) /\ call.before[c] # Motion_Zero)
         => call.J # getJointJacobian_byValue(mdl, data, call.joint, call.rf)

C8_Witness ==
  /\ call.name = "getJointJacobian"
  /\ call.before = Matrix6x_Stale(model_nv(mdl))
  /\ \E c \in 1..model_nv(mdl) :
       c \notin SupportCols(mdl, call.joint) /\ call.J[c] = call.before[c]
  /\ \E c \in SupportCols(mdl, call.joint) : call.J[c] # call.before[c]

(* C9: computeJointJacobian(model, data, q, joint_id, J) on a zeroed J gives    *)
(* the same J as computeJointJacobians(model, data, q) followed by              *)
(* getJointJacobian(model, data, joint_id, LOCAL, J) on a zeroed J.             *)
C9_FusedEqualsTwoStep ==
  (call.name = "computeJointJacobian" /\ call.before = Matrix6x_Zero(model_nv(mdl))) =>
     call.J = getJointJacobian(mdl, computeJointJacobians(mdl, data, call.q),
                               call.joint, "LOCAL", Matrix6x_Zero(model_nv(mdl)))

C9_Witness ==
  /\ call.name = "computeJointJacobian"
  /\ call.before = Matrix6x_Zero(model_nv(mdl))
  /\ parents(mdl, call.joint) > 0
  /\ call.q # ConfigOf(mdl, 1)
  /\ \A c \in SupportCols(mdl, call.joint) : call.J[c] # Motion_Zero

(* C10: after any sequence of computeJointJacobians calls on one data, data.J   *)
(* is what a single call with the last q gives on a fresh data: every joint's   *)
(* columns are overwritten and nothing depends on an earlier call.              *)
C10_LastCallDecides ==
  call.name = "computeJointJacobians" =>
    /\ data.J = computeJointJacobians(mdl, FreshData(mdl), call.q).J
    /\ data.oMi = computeJointJacobians(mdl, FreshData(mdl), call.q).oMi
    /\ \A i \in 1..(njoints(mdl) - 1) :
         \A k \in 1..nv(mdl, i) :
            data.J[idx_v(mdl, i) + k] =
              SE3_act(data.oMi[i], joint_S(ModelTab[mdl][i].type)[k])

C10_Witness ==
  /\ call.name = "computeJointJacobians"
  /\ call.before # Matrix6x_Zero(model_nv(mdl))
  /\ call.before # data.J
  /\ data.J = computeJointJacobians(mdl, FreshData(mdl), call.q).J

(* a 6 x n matrix re-expressed column by column by F (act or actInv of m) *)
RECURSIVE ReExpress(_, _, _, _)
ReExpress(F(_, _), m, J, k) ==
  IF k > Len(J) THEN <<>>
  ELSE <<F(m, J[k])>> \o ReExpress(F, m, J, k + 1)

(* C11: for a root joint, the WORLD Jacobian of getJointJacobian re-expressed   *)
(* in the LOCAL frame is the LOCAL Jacobian of getJointJacobian, and that one   *)
(* re-expressed in the WORLD frame is the original WORLD Jacobian, column for   *)
(* column.                                                                      *)
C11_RootFrameRoundTrip ==
  (/\ call.name = "getJointJacobian_byValue"
   /\ call.rf = "WORLD"
   /\ parents(mdl, call.joint) = 0) =>
     /\ ReExpress(SE3_actInv, data.oMi[call.joint], call.J, 1)
          = getJointJacobian_byValue(mdl, data, call.joint, "LOCAL")
     /\ ReExpress(SE3_act, data.oMi[call.joint],
                  getJointJacobian_byValue(mdl, data, call.joint, "LOCAL"), 1)
          = call.J

C11_Witness ==
  /\ call.name = "getJointJacobian_byValue"
  /\ call.rf = "WORLD"
  /\ parents(mdl, call.joint) = 0
  /\ data.oMi[call.joint].rotation # IIdentity3
  /\ call.J # getJointJacobian_byValue(mdl, data, call.joint, "LOCAL")
  /\ ReExpress(SE3_act, data.oMi[call.joint],
               getJointJacobian_byValue(mdl, data, call.joint, "LOCAL"), 1) = call.J

(* the columns (1-based) that the step of computeJointJacobians at joint i writes *)
WrittenCols(m, d, q, i) ==
  {c \in 1..model_nv(m) :
     JointJacobiansForwardStep(m, [d EXCEPT !.J = Matrix6x_Stale(model_nv(m))], q, i).J[c]
       # Matrix6x_Stale(model_nv(m))[c]}

(* C12: in data.J (6 x nv) the column ranges of the joints are pairwise         *)
(* disjoint, each is contiguous with as many columns as the joint has degrees   *)
(* of freedom, they are ordered by joint index and together cover all columns.  *)
C12_ColumnRanges ==
  call.name = "computeJointJacobians" =>
    LET joints == 1..(njoints(mdl) - 1)
        W(i) == WrittenCols(mdl, data, call.q, i)
    IN  /\ Len(data.J) = model_nv(mdl)
        /\ \A i \in joints :
             /\ Cardinality(W(i)) = Len(joint_S(ModelTab[mdl][i].type))
             /\ \A a \in W(i), b \in W(i), c \in 1..model_nv(mdl) :
                  (a < c /\ c < b) => c \in W(i)
        /\ \A i \in joints, j \in joints :
             i < j => \A a \in W(i), b \in W(j) : a < b
        /\ UNION {W(i) : i \in joints} = 1..model_nv(mdl)

C12_Witness ==
  /\ call.name = "computeJointJacobians"
  /\ \E i \in 1..(njoints(mdl) - 1) :
       /\ Cardinality(WrittenCols(mdl, data, call.q, i)) = 3
       /\ i < njoints(mdl) - 1
       /\ WrittenCols(mdl, data, call.q, i + 1) = {idx_v(mdl, i) + 4}

(* the sign factor of the near-pi branch: +1 when R(k, j) > R(j, k), else -1 *)
NearPiSign(R, j, k) ==
  IF Holds("GT", El(R, k, j), El(R, j, k)) THEN One ELSE MinusOne
(* (R(i, i) + cphi) / (1 + cphi), cut at zero *)
NearPiRatio(R, i) ==
  Max(Zero, Div(Add(El(R, i, i), log3_cphi(R)), Add(One, log3_cphi(R))))
(* the cyclic permutations (i, j, k) of the three output components *)
Cyclic == {<<0, 1, 2>>, <<1, 2, 0>>, <<2, 0, 1>>}

(* C14 as stated: for theta >= pi - 1e-2 each component r_i is                  *)
(* sign * sqrt(max(0, (R(i,i) + cphi)/(1 + cphi))), otherwise                   *)
(* t * (R(k,j) - R(j,k)); all three components or none; no 0/0 at theta = pi.   *)
C14_Original ==
  op = "log3" =>
    \A c \in Cyclic :
      res[c[1] + 1] =
        IF Holds("GE", theta, PI_value_lower)
        THEN Mul(NearPiSign(M.rotation, c[2], c[3]), Sqrt(NearPiRatio(M.rotation, c[1])))
        ELSE Mul(log3_t(theta), Sub(El(M.rotation, c[3], c[2]), El(M.rotation, c[2], c[3])))

(* C14 amended: for theta >= pi - 1e-2 each component r_i is                    *)
(* sign * theta * sqrt(max(0, (R(i,i) + cphi)/(1 + cphi))), the sign being +1   *)
(* when R(k,j) > R(j,k) and -1 otherwise; below that angle r_i is               *)
(* t * (R(k,j) - R(j,k)); all three components or none take the near-pi value,  *)
(* and at theta = pi the divisor 1 + cphi is 2 and every component is finite.   *)
C14_NearPiFormula ==
  op = "log3" =>
    /\ \A c \in Cyclic :
         res[c[1] + 1] =
           IF Holds("GE", theta, PI_value_lower)
           THEN Mul(NearPiSign(M.rotation, c[2], c[3]),
                    Mul(theta, Sqrt(NearPiRatio(M.rotation, c[1]))))
           ELSE Mul(log3_t(theta), Sub(El(M.rotation, c[3], c[2]), El(M.rotation, c[2], c[3])))
    /\ theta = PI_value =>
         /\ Add(One, log3_cphi(M.rotation)) = Two
         /\ \A i \in 1..3 : Fin(res[i])

C14_Witness ==
  /\ op = "log3"
  /\ gen = [kind |-> "rot", a |-> 4, g |-> NearPiIndex]
  /\ Holds("GE", theta, PI_value_lower)
  /\ theta # PI_value
  /\ res = VScale(theta, AxisTab[4])

(* C15 as stated: the value passed to acos is computed from the trace clamped   *)
(* to [-1, 3], so acos is never evaluated on an argument outside [-1, 1].       *)
C15_Original ==
  op = "log3" =>
    /\ log3_acos_arg(M.rotation) = Div(Sub(log3_tr(M.rotation), One), Two)
    /\ ~Less(log3_acos_arg(M.rotation), MinusOne)
    /\ ~Less(One, log3_acos_arg(M.rotation))

(* C15 amended: acos is evaluated on (tr - 1)/2 of the unclamped trace, before  *)
(* the clamp; when the trace is below -1 or above 3 that argument is outside    *)
(* [-1, 1] and the acos value is NaN, but theta = pi or theta = 0 is selected   *)
(* instead.  The clamp to [-1, 3] follows and feeds cphi, which is in [-1, 1].  *)
C15_ClampAfterAcos ==
  op = "log3" =>
    LET tr == Trace(M.rotation)
    IN  /\ log3_acos_arg(M.rotation) = Div(Sub(tr, One), Two)
        /\ Less(tr, MinusOne) =>
             /\ Less(log3_acos_arg(M.rotation), MinusOne)
             /\ IsNaN(log3_acos(M.rotation))
             /\ theta = PI_value
             /\ log3_cphi(M.rotation) = One
        /\ Less(Three, tr) =>
             /\ Less(One, log3_acos_arg(M.rotation))
             /\ IsNaN(log3_acos(M.rotation))
             /\ theta = Zero
             /\ log3_cphi(M.rotation) = MinusOne
        /\ ~Less(log3_cphi(M.rotation), MinusOne)
        /\ ~Less(One, log3_cphi(M.rotation))
        /\ Fin(theta)

C15_Witness ==
  /\ op = "log3"
  /\ gen.kind = "off"
  /\ Less(Trace(M.rotation), MinusOne)
  /\ IsNaN(log3_acos(M.rotation))
  /\ theta = PI_value

(* a 6x6 output buffer whose 36 entries all hold f *)
Buffer66(f) == [A |-> Fill33(f), B |-> Fill33(f), C |-> Fill33(f), D |-> Fill33(f)]
PriorContents == {Zero, Rat(7, 1), NaN}

(* C16: Jlog6 writes A by Jlog3, copies A to D, builds C completely, computes   *)
(* B from that C and A, and zeroes C last; every entry is assigned, so the      *)
(* result is the same whatever the buffer held before, NaN included.            *)
C16_WriteOrder ==
  op = "Jlog6" =>
    LET l3 == log3(M.rotation)
        p  == M.translation
        s1 == Jlog6_AD(Buffer66(NaN), l3.theta, l3.res)
        s5 == Jlog6_C4(Jlog6_C3(Jlog6_C2(Jlog6_C1(s1, l3.theta, l3.res, p),
                                         l3.theta, l3.res, p), l3.theta, l3.res, p),
                       l3.theta, l3.res, p)
    IN  /\ s1.A = Jlog3(l3.theta, l3.res) /\ s1.D = s1.A
        /\ s5.C = Jlog6_Ctmp(l3.theta, l3.res, p)
        /\ s5.A = s1.A /\ s5.D = s1.D
        /\ value.B = MMul(s5.C, s5.A)
        /\ value.C = ZeroMat3
        /\ \A f \in PriorContents : Jlog6(M, Buffer66(f)) = value

C16_Witness ==
  /\ op = "Jlog6"
  /\ res = Fill3(Rat(7, 1))
  /\ M.translation # Zero3
  /\ value.A # Identity3
  /\ value.B # ZeroMat3
  /\ value.D = value.A
  /\ value = Jlog6(M, Buffer66(NaN))

FinVec(v) == \A i \in 1..3 : Fin(v[i])
FinMat(m) == \A i \in 1..3 : FinVec(m[i])

(* C17: both values of every selection are computed, so at theta = 0 and at     *)
(* theta = pi the sub-expressions theta^2/(1+cphi), theta/sin(theta),           *)
(* st/(1-ct), 1/theta and 1/(2(1-ct)) are divisions by zero with a non-finite   *)
(* value, and yet every entry of the outputs of log3, Jlog3, log6 and Jlog6 is  *)
(* finite: no output depends on them.                                           *)
C17_SingularNotSelected ==
  LET R  == M.rotation
      th == log3_theta(R)
  IN  /\ op = "log3" =>
           /\ Fin(theta) /\ FinVec(res)
           /\ Trace(R) = Three => ~Fin(log3_beta(R, theta))
           /\ theta = PI_value => ~Fin(Div(theta, Sin(theta))) /\ ~Fin(log3_t(theta))
      /\ op = "Jlog3" =>
           /\ FinMat(Jl3)
           /\ theta = Zero => ~Fin(Jlog3_st_1mct(theta))
      /\ op = "log6" =>
           /\ FinVec(mout.linear) /\ FinVec(mout.angular)
           /\ th = Zero =>
                /\ ~Fin(Div(Mul(th, Sin(th)), Mul(Two, Sub(One, Cos(th)))))
                /\ ~Fin(Div(One, Mul(th, th)))
      /\ op = "Jlog6" =>
           /\ FinMat(value.A) /\ FinMat(value.B) /\ FinMat(value.C) /\ FinMat(value.D)
           /\ th = Zero => ~Fin(Jlog6_tinv(th)) /\ ~Fin(Jlog6_inv_2_2ct(th))

C17_Witness ==
  /\ op = "log3"
  /\ theta = PI_value
  /\ ~Fin(log3_t(theta))
  /\ FinVec(res)
  /\ res # Zero3

(* C18: Jlog3 at theta = 0 with the zero vector is the 3x3 identity, and Jlog6   *)
(* of a pure translation (I, p) is [[I, 0.5 skew(p)], [0, I]], the 6x6 identity  *)
(* when p = 0.                                                                    *)
C18_IdentityCases ==
  /\ (op = "Jlog3" /\ theta = Zero /\ res = Zero3) => Jl3 = Identity3
  /\ (op = "Jlog6" /\ M.rotation = Identity3) =>
       /\ value.A = Identity3
       /\ value.B = MScale(Half, Skew(M.translation))
       /\ value.C = ZeroMat3
       /\ value.D = Identity3
       /\ M.translation = Zero3 => value.B = ZeroMat3

C18_Witness ==
  /\ op = "Jlog6"
  /\ M.rotation = Identity3
  /\ M.translation # Zero3
  /\ value.A = Identity3
  /\ value.B = MScale(Half, Skew(M.translation))
  /\ value.B # ZeroMat3

(* ======================================================================= *)
(* Claims about the helical joint (specification HelSpec)                  *)
(* ======================================================================= *)

(* a * u + v on motions *)
MotionAxpy(a, u, v) ==
  [linear |-> VAdd(VScale(a, u.linear), v.linear),
   angular |-> VAdd(VScale(a, u.angular), v.angular)]

(* C13: with the chain at (h*q, q), the world placement of the chain's second   *)
(* joint is the world placement of the helical joint, and the helical joint's   *)
(* world Jacobian column is h times the prismatic column plus the revolute one. *)
C13_HelicalEquivalence ==
  (hx.done /\ pxrx.done) =>
    /\ q_PXRX(hin.g, PitchTab[hin.h]) = << Mul(PitchTab[hin.h], AngleOf(hin.g)), hin.g >>
    /\ pxrx.oMi[2] = hx.oMi[1]
    /\ hx.J[1] = MotionAxpy(PitchTab[hin.h], pxrx.J[1], pxrx.J[2])

C13_Witness ==
  /\ hx.done /\ pxrx.done
  /\ hin.g = 3 /\ hin.root = 2
  /\ PitchTab[hin.h] = Rat(2, 5)
  /\ pxrx.oMi[2] = hx.oMi[1]
  /\ pxrx.oMi[1] # pxrx.oMi[2]
  /\ hx.oMi[1].translation # RootTab[hin.root].translation
  /\ hx.J[1] # pxrx.J[2]
  /\ hx.J[1] = MotionAxpy(PitchTab[hin.h], pxrx.J[1], pxrx.J[2])

(* ======================================================================= *)
(* Claims about the Python bindings of std::vector (specification PySpec)  *)
(* ======================================================================= *)

(* C19: after the converter of a list argument is destroyed, when a temporary   *)
(* vector was built element i of the vector has been copied into list element i *)
(* for every i < vec.size() and no list index >= the list's length was          *)
(* accessed; when an lvalue converter was found or the list was not convertible *)
(* nothing is copied back.                                                      *)
C19_CopyBack ==
  conv.pc = "destroyed" =>
    /\ \A i \in conv.accessed : i < Len(py_obj.items)
    /\ ~conv.threw
    /\ conv.convertible = "storage" =>
         /\ conv.result = "storage" /\ py_obj.kind = "list"
         /\ conv.copied = Len(conv.storage)
         /\ \A i \in 1..Len(conv.storage) : py_obj.items[i] = [t |-> "T", v |-> conv.storage[i]]
    /\ conv.convertible # "storage" =>
         /\ conv.copied = 0 /\ conv.accessed = {}
         /\ (conv.result = "lvalue") = (py_obj.kind = "vector")
         /\ conv.result = "null" => ~from_python_list(py_obj)

(* C20: for a container of size n, __getitem__ with an integer i, -n <= i < n,  *)
(* returns the item at i (i >= 0) or at i + n (i < 0); every other integer      *)
(* raises IndexError and a non-integer TypeError; the index convert_index       *)
(* returns is in [0, n), so KeyError is never raised.                           *)
C20_ConvertIndex ==
  ret.name = "base_get_item" =>
    LET n == Len(ret.container)
        i == ret.arg.v
    IN  /\ ret.exc # "KeyError"
        /\ ret.arg.t # "int" => ret.exc = "TypeError"
        /\ (ret.arg.t = "int" /\ -n <= i /\ i < n) =>
             /\ ret.exc = "none"
             /\ ret.index = IF i >= 0 THEN i ELSE i + n
             /\ ret.item = ret.container[ret.index + 1]
        /\ (ret.arg.t = "int" /\ ~(-n <= i /\ i < n)) => ret.exc = "IndexError"
        /\ ret.exc = "none" => (0 <= ret.index /\ ret.index < n)
        /\ convert_index(ret.container, ret.arg).exc = "none" =>
             convert_index(ret.container, ret.arg).index \in 0..(n - 1)

C20_Witness ==
  /\ ret.name = "base_get_item"
  /\ Len(ret.container) = 2
  /\ ret.arg = [t |-> "int", v |-> -2]
  /\ ret.exc = "none"
  /\ ret.index = 0
  /\ ret.item = ret.container[1]
  /\ ret.container[1] # ret.container[2]

====
